---- MODULE Spec2Model ----
(***************************************************************************)
(* A model of OrderBook (src/src/order_execution.py): the per-ticker buy   *)
(* and sell deques, add_order's validation, and match_orders' sort,        *)
(* pairing scan, settlement and persistence.                               *)
(*                                                                         *)
(* Python dicts that hold orders are objects with identity: the deques     *)
(* hold references.  The model keeps a heap `orders` (object id -> fields) *)
(* and the deques hold object ids, so that an in-place update of           *)
(* order['quantity'] is seen through every reference, while                *)
(* deque.remove(x) compares by value (dict ==) as Python does.             *)
(***************************************************************************)
EXTENDS Integers, Sequences, FiniteSets, TLC

VARIABLES
    orders,            \* heap of the order dicts admitted to the book, by object id
    buy_orders,        \* self.buy_orders: ticker -> deque of order ids
    sell_orders,       \* self.sell_orders: ticker -> deque of order ids
    last_trade_price,  \* self.last_trade_price: ticker -> price
    accounts,          \* the account manager's accounts: id -> balance, positions
    executed_trades,   \* the content of executed_trades_file: a list of trades
    unmatched_file,    \* the content of unmatched_orders_file: <<>> (no file) or <<data>>
    file_state,        \* per file, "ok" (absent, or as the program wrote it) or "corrupt" (not JSON)
    history,           \* history: per order object, the quantity it was submitted with and the quantity filled so far
    last_call          \* observation: the most recent call, its argument, its result and, for match_orders, its run

vars == <<orders, buy_orders, sell_orders, last_trade_price, accounts,
          executed_trades, unmatched_file, file_state, history, last_call>>

-----------------------------------------------------------------------------
(* Bounds and input domains *)

\* The number of order objects admitted over a run.
MaxOrders == 3

\* Python's None, for an order's price and for a missing last trade price.
None == -1

Accounts == {"A", "B"}
Tickers == {"XYZ"}
Actions == {"buy", "sell"}

\* The order dicts a caller builds as the data model describes them: a market
\* order without a price, a limit order with one, a positive quantity.
OrderInputs ==
    {o \in [account_id : Accounts, ticker : Tickers, action : Actions,
            order_type : {"market", "limit"}, quantity : {1, 2},
            price : {None, 1, 2}, timestamp : {1}] :
        (o.order_type = "market") <=> (o.price = None)}

\* The number of order objects admitted over a run that is given any dict.
MaxAdmitted == 2

\* Any dict: a quantity, an order type or a price that add_order refuses, a
\* market order that carries a price, an action that is neither buy nor sell.
AnyOrderInputs ==
    [account_id : Accounts, ticker : Tickers, action : Actions \cup {"hold"},
     order_type : {"market", "limit", "stop"}, quantity : {0, 2},
     price : {None, 0, 1}, timestamp : {1}]

\* The number of order objects admitted over a run with timestamps.
MaxTimed == 3

\* Orders of one share with different creation instants; a market order may
\* carry a price, which add_order accepts.
TimedOrderInputs ==
    {o \in [account_id : Accounts, ticker : Tickers, action : Actions,
            order_type : {"market", "limit"}, quantity : {1},
            price : {None, 1, 2}, timestamp : {1, 2}] :
        IF o.order_type = "limit" THEN o.price # None ELSE o.price # 1}

\* The number of order objects created over a run with reloads: the dicts the
\* callers build and the dicts load_unmatched_orders builds.
MaxHeap == 5

\* The accounts the account manager holds when the book is constructed.
InitialAccounts ==
    [a \in Accounts |->
        IF a = "A" THEN [balance |-> 3, positions |-> [t \in Tickers |-> 2]]
                   ELSE [balance |-> 2, positions |-> [t \in Tickers |-> 1]]]

-----------------------------------------------------------------------------
(* Dicts *)

\* dict.get(k, default)
Get(d, k, default) == IF k \in DOMAIN d THEN d[k] ELSE default

\* d[k] = v
Put(d, k, v) == [x \in (DOMAIN d) \cup {k} |-> IF x = k THEN v ELSE d[x]]

EmptyDict == [x \in {} |-> 0]

\* As Min, but one share whatever the two quantities are.
OneShare(a, b) == 1

Min(a, b) == IF a <= b THEN a ELSE b

-----------------------------------------------------------------------------
(* match_orders: the sort *)

\* Python's truth value of o.get('price'): None and 0 are false.
Truthy(p) == p # None /\ p # 0

\* The buy side's sort key: (order_type != 'market', -price or +inf, timestamp);
\* +inf is written as a leading 1, a finite value as a leading 0.
BuyKey(o) ==
    << IF o.order_type # "market" THEN 1 ELSE 0,
       IF Truthy(o.price) THEN 0 ELSE 1,
       IF Truthy(o.price) THEN -o.price ELSE 0,
       o.timestamp >>

\* The sell side's sort key: (order_type != 'market', price or 0, timestamp).
SellKey(o) ==
    << IF o.order_type # "market" THEN 1 ELSE 0,
       0,
       IF Truthy(o.price) THEN o.price ELSE 0,
       o.timestamp >>

\* Python's tuple comparison k1 < k2.
KeyLess(k1, k2) ==
    \E i \in 1..Len(k1) : k1[i] < k2[i] /\ \A j \in 1..(i - 1) : k1[j] = k2[j]

SortKey(side, o) == IF side = "buy" THEN BuyKey(o) ELSE SellKey(o)

\* One insertion of a stable sort: id goes after every element whose key is
\* not greater than its own.
InsertByKey(sorted, id, heap, side) ==
    LET after == {i \in 1..Len(sorted) :
                    KeyLess(SortKey(side, heap[id]), SortKey(side, heap[sorted[i]]))}
        pos == IF after = {} THEN Len(sorted) + 1
               ELSE CHOOSE i \in after : \A j \in after : i <= j
    IN SubSeq(sorted, 1, pos - 1) \o <<id>> \o SubSeq(sorted, pos, Len(sorted))

RECURSIVE SortedInto(_, _, _, _)
SortedInto(done, rest, heap, side) ==
    IF rest = <<>> THEN done
    ELSE SortedInto(InsertByKey(done, Head(rest), heap, side), Tail(rest), heap, side)

\* deque(sorted(deque, key=...)): Python's sort is stable.
Sorted(ids, heap, side) == SortedInto(<<>>, ids, heap, side)

-----------------------------------------------------------------------------
(* match_orders: the pairing scan and the settlement *)

\* The matching loop works on the two sorted local deques and on the objects
\* they refer to: cfg = [buys, sells, orders, accounts, ltp, trades, files].

\* As ExecutionPrice, but two limit orders trade whether their prices cross
\* or not.
ExecutionPriceUncrossed(b, s, ltp, ticker) ==
    IF b.order_type = "market" /\ s.order_type = "market"
        THEN Get(ltp, ticker, None)
    ELSE IF b.order_type = "market" /\ s.order_type = "limit"
        THEN s.price
    ELSE IF b.order_type = "limit" /\ s.order_type = "market"
        THEN b.price
    ELSE IF b.order_type = "limit" /\ s.order_type = "limit"
        THEN s.price
    ELSE None

\* As ExecutionPrice, but two crossing limit orders trade at the buy's price.
ExecutionPriceOfBuyer(b, s, ltp, ticker) ==
    IF b.order_type = "market" /\ s.order_type = "market"
        THEN Get(ltp, ticker, None)
    ELSE IF b.order_type = "market" /\ s.order_type = "limit"
        THEN s.price
    ELSE IF b.order_type = "limit" /\ s.order_type = "market"
        THEN b.price
    ELSE IF b.order_type = "limit" /\ s.order_type = "limit"
        THEN IF b.price >= s.price THEN b.price ELSE None
    ELSE None

\* execution_price for a pair, or None where the code says `continue`.
ExecutionPrice(b, s, ltp, ticker) ==
    IF b.order_type = "market" /\ s.order_type = "market"
        THEN Get(ltp, ticker, None)
    ELSE IF b.order_type = "market" /\ s.order_type = "limit"
        THEN s.price
    ELSE IF b.order_type = "limit" /\ s.order_type = "market"
        THEN b.price
    ELSE IF b.order_type = "limit" /\ s.order_type = "limit"
        THEN IF b.price >= s.price THEN s.price ELSE None
    ELSE None

\* As Eligible, without the check of the two account ids.
EligibleAnyAccount(b, s, ltp, ticker) ==
    ExecutionPrice(b, s, ltp, ticker) # None

\* The pair is not skipped by the scan: different accounts and a price.
Eligible(b, s, ltp, ticker) ==
    /\ b.account_id # s.account_id
    /\ ExecutionPrice(b, s, ltp, ticker) # None

\* As EligiblePairs, but only the first buy order is scanned against the sells.
EligiblePairsOfBestBuy(cfg, ticker) ==
    {p \in {1} \X (1..Len(cfg.sells)) :
        /\ cfg.buys # <<>>
        /\ Eligible(cfg.orders[cfg.buys[p[1]]], cfg.orders[cfg.sells[p[2]]],
                    cfg.ltp, ticker)}

\* The positions <<i, j>> in the two deques of the pairs the scan would act on.
EligiblePairs(cfg, ticker) ==
    {p \in (1..Len(cfg.buys)) \X (1..Len(cfg.sells)) :
        Eligible(cfg.orders[cfg.buys[p[1]]], cfg.orders[cfg.sells[p[2]]],
                 cfg.ltp, ticker)}

\* The nested for loops reach the pairs buy by buy, and sell by sell within a buy.
ScanBefore(p, q) == p[1] < q[1] \/ (p[1] = q[1] /\ p[2] <= q[2])

FirstPair(pairs) == CHOOSE p \in pairs : \A q \in pairs : ScanBefore(p, q)

\* deque.remove(x): drops the first element equal to x; dicts compare by value.
Remove(ids, id, heap) ==
    LET same == {i \in 1..Len(ids) : heap[ids[i]] = heap[id]}
        pos == CHOOSE i \in same : \A j \in same : i <= j
    IN SubSeq(ids, 1, pos - 1) \o SubSeq(ids, pos + 1, Len(ids))

\* The buyer's balance does not cover the cost: the buy order leaves the
\* local deque and nothing else changes.
Reject(cfg, bid) == [cfg EXCEPT !.buys = Remove(cfg.buys, bid, cfg.orders)]

\* save_executed_trade's read of the log: the list the file holds, or the
\* empty list when there is no file or json.load raises JSONDecodeError.
LoadedTrades(cfg) == IF cfg.files.trades = "corrupt" THEN <<>> ELSE cfg.trades

\* As Settle, but the seller's account is left as it was.
SettleBuyerOnly(cfg, ticker, bid, sid, q, price) ==
    LET b == cfg.orders[bid]
        s == cfg.orders[sid]
        cost == q * price
        acc1 == [cfg.accounts EXCEPT
                    ![b.account_id].balance = @ - cost,
                    ![b.account_id].positions[ticker] = @ + q]
        heap1 == [cfg.orders EXCEPT ![bid].quantity = @ - q]
        heap2 == [heap1 EXCEPT ![sid].quantity = @ - q]
        trade == [ticker |-> ticker, price |-> price, quantity |-> q,
                  buy_account_id |-> b.account_id,
                  sell_account_id |-> s.account_id]
        buys1 == IF heap2[bid].quantity = 0
                 THEN Remove(cfg.buys, bid, heap2) ELSE cfg.buys
        sells1 == IF heap2[sid].quantity = 0
                  THEN Remove(cfg.sells, sid, heap2) ELSE cfg.sells
    IN [buys |-> buys1, sells |-> sells1, orders |-> heap2, accounts |-> acc1,
        ltp |-> Put(cfg.ltp, ticker, price),
        trades |-> Append(LoadedTrades(cfg), trade),
        files |-> [cfg.files EXCEPT !.trades = "ok"]]

\* As Settle, but the last trade price is left as it was.
SettleKeepingPrice(cfg, ticker, bid, sid, q, price) ==
    LET b == cfg.orders[bid]
        s == cfg.orders[sid]
        cost == q * price
        acc1 == [cfg.accounts EXCEPT
                    ![b.account_id].balance = @ - cost,
                    ![b.account_id].positions[ticker] = @ + q]
        acc2 == [acc1 EXCEPT
                    ![s.account_id].positions[ticker] = @ - q,
                    ![s.account_id].balance = @ + cost]
        heap1 == [cfg.orders EXCEPT ![bid].quantity = @ - q]
        heap2 == [heap1 EXCEPT ![sid].quantity = @ - q]
        trade == [ticker |-> ticker, price |-> price, quantity |-> q,
                  buy_account_id |-> b.account_id,
                  sell_account_id |-> s.account_id]
        buys1 == IF heap2[bid].quantity = 0
                 THEN Remove(cfg.buys, bid, heap2) ELSE cfg.buys
        sells1 == IF heap2[sid].quantity = 0
                  THEN Remove(cfg.sells, sid, heap2) ELSE cfg.sells
    IN [buys |-> buys1, sells |-> sells1, orders |-> heap2, accounts |-> acc2,
        ltp |-> cfg.ltp,
        trades |-> Append(LoadedTrades(cfg), trade),
        files |-> [cfg.files EXCEPT !.trades = "ok"]]

\* Settlement of a trade of q at price between buy object bid and sell object sid:
\* the two accounts, the two quantities, the last trade price, the trade record
\* (its 'timestamp', the wall clock's datetime.now(), is left out) and the
\* removal of an order that is filled.
Settle(cfg, ticker, bid, sid, q, price) ==
    LET b == cfg.orders[bid]
        s == cfg.orders[sid]
        cost == q * price
        acc1 == [cfg.accounts EXCEPT
                    ![b.account_id].balance = @ - cost,
                    ![b.account_id].positions[ticker] = @ + q]
        acc2 == [acc1 EXCEPT
                    ![s.account_id].positions[ticker] = @ - q,
                    ![s.account_id].balance = @ + cost]
        heap1 == [cfg.orders EXCEPT ![bid].quantity = @ - q]
        heap2 == [heap1 EXCEPT ![sid].quantity = @ - q]
        trade == [ticker |-> ticker, price |-> price, quantity |-> q,
                  buy_account_id |-> b.account_id,
                  sell_account_id |-> s.account_id]
        buys1 == IF heap2[bid].quantity = 0
                 THEN Remove(cfg.buys, bid, heap2) ELSE cfg.buys
        sells1 == IF heap2[sid].quantity = 0
                  THEN Remove(cfg.sells, sid, heap2) ELSE cfg.sells
    IN [buys |-> buys1, sells |-> sells1, orders |-> heap2, accounts |-> acc2,
        ltp |-> Put(cfg.ltp, ticker, price),
        trades |-> Append(LoadedTrades(cfg), trade),
        files |-> [cfg.files EXCEPT !.trades = "ok"]]

\* As MatchEvent, without the check of the buyer's balance.
MatchEventUnfunded(cfg, ticker) ==
    LET p == FirstPair(EligiblePairs(cfg, ticker))
        bid == cfg.buys[p[1]]
        sid == cfg.sells[p[2]]
        b == cfg.orders[bid]
        s == cfg.orders[sid]
        price == ExecutionPrice(b, s, cfg.ltp, ticker)
        q == Min(b.quantity, s.quantity)
    IN [kind |-> "trade",
        buy |-> bid, sell |-> sid, price |-> price, quantity |-> q,
        pre |-> cfg,
        post |-> Settle(cfg, ticker, bid, sid, q, price)]

\* One pass of the while loop that finds a pair: the event it produces.
MatchEvent(cfg, ticker) ==
    LET p == FirstPair(EligiblePairs(cfg, ticker))
        bid == cfg.buys[p[1]]
        sid == cfg.sells[p[2]]
        b == cfg.orders[bid]
        s == cfg.orders[sid]
        price == ExecutionPrice(b, s, cfg.ltp, ticker)
        q == Min(b.quantity, s.quantity)
        funded == cfg.accounts[b.account_id].balance >= q * price
    IN [kind |-> IF funded THEN "trade" ELSE "reject",
        buy |-> bid, sell |-> sid, price |-> price, quantity |-> q,
        pre |-> cfg,
        post |-> IF funded THEN Settle(cfg, ticker, bid, sid, q, price)
                 ELSE Reject(cfg, bid)]

\* The while loop: events until a scan finds no pair (or a deque is empty).
RECURSIVE MatchLoop(_, _, _)
MatchLoop(cfg, ticker, events) ==
    IF EligiblePairs(cfg, ticker) = {} THEN [cfg |-> cfg, events |-> events]
    ELSE LET e == MatchEvent(cfg, ticker)
         IN MatchLoop(e.post, ticker, Append(events, e))

-----------------------------------------------------------------------------
(* Persistence *)

\* datetime.isoformat() and datetime.fromisoformat(): a datetime is a number
\* here and its ISO-8601 string is the tagged value [iso |-> number].
IsoFormat(t) == [iso |-> t]
FromIsoFormat(x) == x.iso

\* serialize_order: a copy of the dict with its timestamp as a string.
SerializeOrder(o) == [o EXCEPT !.timestamp = IsoFormat(o.timestamp)]

\* As Snapshot, but 'sell_orders' is built from the buy side as well.
SnapshotOfBuySide(buys, sells, heap) ==
    [buy_orders |->
        [t \in DOMAIN buys |->
            [i \in 1..Len(buys[t]) |-> SerializeOrder(heap[buys[t][i]])]],
     sell_orders |->
        [t \in DOMAIN buys |->
            [i \in 1..Len(buys[t]) |-> SerializeOrder(heap[buys[t][i]])]]]

\* The data save_unmatched_orders writes.
Snapshot(buys, sells, heap) ==
    [buy_orders |->
        [t \in DOMAIN buys |->
            [i \in 1..Len(buys[t]) |-> SerializeOrder(heap[buys[t][i]])]],
     sell_orders |->
        [t \in DOMAIN sells |->
            [i \in 1..Len(sells[t]) |-> SerializeOrder(heap[sells[t][i]])]]]

\* The dict load_unmatched_orders appends: the parsed JSON object with its
\* 'timestamp' converted back to a datetime.
LoadedOrder(x) == [x EXCEPT !.timestamp = FromIsoFormat(@)]

\* As LoadSide, but each stored order goes to the head of its deque.
RECURSIVE LoadSideAtHead(_, _, _, _)
LoadSideAtHead(data, ts, heap, book) ==
    IF ts = {} THEN [heap |-> heap, book |-> book]
    ELSE LET t == CHOOSE x \in ts : TRUE
             n == Len(data[t])
             objs == [i \in 1..n |-> LoadedOrder(data[t][i])]
             ids == [i \in 1..n |-> Len(heap) + n + 1 - i]
         IN LoadSideAtHead(data, ts \ {t}, heap \o objs, Put(book, t, ids))

\* One of the two loops of load_unmatched_orders over data.get(side, {}): a new
\* deque per ticker, a new dict per stored order.
RECURSIVE LoadSide(_, _, _, _)
LoadSide(data, ts, heap, book) ==
    IF ts = {} THEN [heap |-> heap, book |-> book]
    ELSE LET t == CHOOSE x \in ts : TRUE
             n == Len(data[t])
             objs == [i \in 1..n |-> LoadedOrder(data[t][i])]
             ids == [i \in 1..n |-> Len(heap) + i]
         IN LoadSide(data, ts \ {t}, heap \o objs, Put(book, t, ids))

\* load_unmatched_orders on the file `file` in state `state`: whether it
\* returns (json.load raises on a file that is not JSON), the book it leaves
\* and the heap with the new dicts.
LoadUnmatchedOrders(file, state, heap, buys, sells) ==
    IF state = "corrupt"
        THEN [returns |-> FALSE, heap |-> heap, buys |-> buys, sells |-> sells]
    ELSE IF file = <<>>
        THEN [returns |-> TRUE, heap |-> heap, buys |-> EmptyDict, sells |-> EmptyDict]
    ELSE LET data == file[1]
             b == LoadSide(data.buy_orders, DOMAIN data.buy_orders, heap, EmptyDict)
             s == LoadSide(data.sell_orders, DOMAIN data.sell_orders, b.heap, EmptyDict)
         IN [returns |-> TRUE, heap |-> s.heap, buys |-> b.book, sells |-> s.book]

-----------------------------------------------------------------------------
(* add_order *)

\* As Accepts, without the check of the seller's position.
AcceptsAnySale(o, accts) ==
    IF o.quantity <= 0 THEN FALSE
    ELSE IF o.order_type \notin {"market", "limit"} THEN FALSE
    ELSE IF o.order_type = "limit" /\ (o.price = None \/ o.price <= 0) THEN FALSE
    ELSE TRUE

\* The validation of add_order: TRUE when none of its four checks rejects.
Accepts(o, accts) ==
    IF o.quantity <= 0 THEN FALSE
    ELSE IF o.order_type \notin {"market", "limit"} THEN FALSE
    ELSE IF o.order_type = "limit" /\ (o.price = None \/ o.price <= 0) THEN FALSE
    ELSE IF o.action = "sell"
            /\ Get(accts[o.account_id].positions, o.ticker, 0) < o.quantity
        THEN FALSE
    ELSE TRUE

\* The append to the deque of the order's side and ticker.
Appended(book, o, id, side) ==
    IF o.action = side THEN Put(book, o.ticker, Append(Get(book, o.ticker, <<>>), id))
    ELSE book

NoEvents == <<>>

\* The run of a call that is no match_orders call.
NoRun == [events |-> NoEvents]

\* What is observed of a call: its name, the order or the ticker it was given,
\* what it returned and, for match_orders, its loop's events and final state.
Call(op, order, ticker, result, run) ==
    [op |-> op, order |-> order, ticker |-> ticker, result |-> result,
     run |-> run]

\* The ids some deque holds.
Resting == {id \in 1..Len(orders) :
                \E t \in Tickers :
                    \/ \E i \in 1..Len(Get(buy_orders, t, <<>>)) : buy_orders[t][i] = id
                    \/ \E i \in 1..Len(Get(sell_orders, t, <<>>)) : sell_orders[t][i] = id}

RECURSIVE EntriesOf(_, _)
EntriesOf(book, ts) ==
    IF ts = {} THEN 0
    ELSE LET t == CHOOSE x \in ts : TRUE
         IN Len(book[t]) + EntriesOf(book, ts \ {t})

\* The number of references the two books hold.
Entries == EntriesOf(buy_orders, DOMAIN buy_orders) + EntriesOf(sell_orders, DOMAIN sell_orders)

\* add_order(order, account_manager) with the object id: a dict new to the
\* book when id = Len(orders) + 1, a dict the book already holds otherwise.
\* heap is the heap with the object in it; an accepted order whose action is
\* neither buy nor sell goes to no deque and is not kept.
AddOrderObject(o, id, heap) ==
    IF ~Accepts(o, accounts)
    THEN /\ last_call' = Call("add", <<o>>, <<>>, FALSE, NoRun)
         /\ UNCHANGED <<orders, buy_orders, sell_orders, unmatched_file,
                        file_state, history>>
    ELSE /\ buy_orders' = Appended(buy_orders, o, id, "buy")
         /\ sell_orders' = Appended(sell_orders, o, id, "sell")
         /\ orders' = IF o.action \in {"buy", "sell"} THEN heap ELSE orders
         /\ unmatched_file' = <<Snapshot(buy_orders', sell_orders', orders')>>
         /\ file_state' = [file_state EXCEPT !.unmatched = "ok"]
         /\ history' = IF Len(orders') > Len(orders)
                        THEN [submitted |-> Append(history.submitted, o.quantity),
                              filled |-> Append(history.filled, 0)]
                        ELSE history
         /\ last_call' = Call("add", <<o>>, <<>>, TRUE, NoRun)

\* add_order with a dict the caller has just built, one of `inputs`.
AddOrderFrom(inputs, bound) ==
    /\ Len(orders) < bound
    /\ \E o \in inputs : AddOrderObject(o, Len(orders) + 1, Append(orders, o))
    /\ UNCHANGED <<last_trade_price, accounts, executed_trades>>

AddOrder == AddOrderFrom(OrderInputs, MaxOrders)

AddTimedOrder == AddOrderFrom(TimedOrderInputs, MaxTimed)

\* add_order with any dict; a call that rejects admits nothing and is not
\* counted by the bound.
AddAnyOrder ==
    /\ \E o \in AnyOrderInputs :
          /\ Len(orders) < MaxAdmitted \/ ~Accepts(o, accounts)
          /\ AddOrderObject(o, Len(orders) + 1, Append(orders, o))
    /\ UNCHANGED <<last_trade_price, accounts, executed_trades>>

\* add_order with a dict that is resting in the book: the same object again.
AddOrderAgainUpTo(bound) ==
    /\ Entries < bound
    /\ \E id \in Resting : AddOrderObject(orders[id], id, orders)
    /\ UNCHANGED <<last_trade_price, accounts, executed_trades>>

AddOrderAgain == AddOrderAgainUpTo(MaxOrders)

AddAnyOrderAgain == AddOrderAgainUpTo(MaxAdmitted)

-----------------------------------------------------------------------------
(* match_orders *)

RECURSIVE FilledAfter(_, _)
FilledAfter(filled, events) ==
    IF events = <<>> THEN filled
    ELSE LET e == Head(events)
             f == IF e.kind = "trade"
                  THEN [[filled EXCEPT ![e.buy] = @ + e.quantity]
                            EXCEPT ![e.sell] = @ + e.quantity]
                  ELSE filled
         IN FilledAfter(f, Tail(events))

\* The local state of match_orders before its loop: the two sorted deques.
MatchStart(ticker) ==
    [buys |-> Sorted(Get(buy_orders, ticker, <<>>), orders, "buy"),
     sells |-> Sorted(Get(sell_orders, ticker, <<>>), orders, "sell"),
     orders |-> orders, accounts |-> accounts,
     ltp |-> last_trade_price, trades |-> executed_trades, files |-> file_state]

\* match_orders(ticker, account_manager): the loop's result is written back to
\* the book, the accounts, the price table and the two files.
MatchOrders(ticker) ==
    /\ last_call' = Call("match", <<>>, <<ticker>>, TRUE,
                         MatchLoop(MatchStart(ticker), ticker, NoEvents))
    /\ LET run == last_call'.run
           end == run.cfg
       IN /\ orders' = end.orders
          /\ accounts' = end.accounts
          /\ last_trade_price' = end.ltp
          /\ executed_trades' = end.trades
          /\ buy_orders' = Put(buy_orders, ticker, end.buys)
          /\ sell_orders' = Put(sell_orders, ticker, end.sells)
          /\ unmatched_file' = <<Snapshot(buy_orders', sell_orders', orders')>>
          /\ file_state' = [end.files EXCEPT !.unmatched = "ok"]
          /\ history' = [history EXCEPT !.filled = FilledAfter(@, run.events)]

Match == \E ticker \in Tickers : MatchOrders(ticker)

-----------------------------------------------------------------------------
(* Reporting queries *)

\* stock_info.get_initial_price(ticker), the collaborator's answer.
InitialPrice(ticker) == 3

\* As LimitPrices, but of every order of the deque.
AllPrices(ids, heap) == {heap[ids[i]].price : i \in 1..Len(ids)}

\* The prices of [o for o in deque if o['order_type'] == 'limit'].
LimitPrices(ids, heap) ==
    {heap[ids[i]].price : i \in {j \in 1..Len(ids) : heap[ids[j]].order_type = "limit"}}

\* max(...) and min(...) of a set of prices that is not empty.
MaxOf(prices) == CHOOSE p \in prices : \A q \in prices : q <= p
MinOf(prices) == CHOOSE p \in prices : \A q \in prices : p <= q

\* get_best_bid_ask(ticker): the pair (best_bid, best_ask).
BestBidAsk(ticker) ==
    LET bids == IF ticker \in DOMAIN buy_orders
                THEN LimitPrices(buy_orders[ticker], orders) ELSE {}
        asks == IF ticker \in DOMAIN sell_orders
                THEN LimitPrices(sell_orders[ticker], orders) ELSE {}
    IN << IF bids # {} THEN MaxOf(bids) ELSE None,
          IF asks # {} THEN MinOf(asks) ELSE None >>

\* get_best_price(action, ticker).
BestPrice(action, ticker) ==
    LET asks == IF ticker \in DOMAIN sell_orders
                THEN LimitPrices(sell_orders[ticker], orders) ELSE {}
        bids == IF ticker \in DOMAIN buy_orders
                THEN LimitPrices(buy_orders[ticker], orders) ELSE {}
    IN IF action = "buy" /\ asks # {} THEN MinOf(asks)
       ELSE IF action = "sell" /\ bids # {} THEN MaxOf(bids)
       ELSE Get(last_trade_price, ticker, InitialPrice(ticker))

GetBestBidAsk ==
    /\ \E ticker \in Tickers :
          last_call' = Call("get_best_bid_ask", <<>>, <<ticker>>,
                            BestBidAsk(ticker), NoRun)
    /\ UNCHANGED <<orders, buy_orders, sell_orders, last_trade_price, accounts,
                   executed_trades, unmatched_file, file_state, history>>

GetBestPrice ==
    /\ \E action \in Actions \cup {"hold"} : \E ticker \in Tickers :
          last_call' = Call("get_best_price", <<action>>, <<ticker>>,
                            BestPrice(action, ticker), NoRun)
    /\ UNCHANGED <<orders, buy_orders, sell_orders, last_trade_price, accounts,
                   executed_trades, unmatched_file, file_state, history>>

-----------------------------------------------------------------------------
(* Construction over the files on disk, and reload *)

\* The history of the dicts a load has added to the heap.
HistoryWith(heap) ==
    [submitted |-> [id \in 1..Len(heap) |->
                        IF id <= Len(orders) THEN history.submitted[id]
                        ELSE heap[id].quantity],
     filled |-> [id \in 1..Len(heap) |->
                        IF id <= Len(orders) THEN history.filled[id] ELSE 0]]

\* OrderBook(stock_info, files): a new book object over the files the last
\* process left; the book of the last process is gone.  When
\* load_unmatched_orders raises there is no book object.
Construct ==
    LET load == LoadUnmatchedOrders(unmatched_file, file_state.unmatched, orders,
                                    EmptyDict, EmptyDict)
    IN /\ Len(load.heap) <= MaxHeap
       /\ orders' = load.heap
       /\ buy_orders' = load.buys
       /\ sell_orders' = load.sells
       /\ last_trade_price' = EmptyDict
       /\ history' = HistoryWith(load.heap)
       /\ last_call' = Call("init", <<>>, <<>>, load.returns, NoRun)
       /\ UNCHANGED <<accounts, executed_trades, unmatched_file, file_state>>

\* There is a book object: the last construction returned.
Constructed == ~(last_call.op = "init" /\ ~last_call.result)

\* save_unmatched_orders() followed by load_unmatched_orders() on the book.
SaveAndLoad ==
    LET file == <<Snapshot(buy_orders, sell_orders, orders)>>
        load == LoadUnmatchedOrders(file, "ok", orders, buy_orders, sell_orders)
    IN /\ Constructed
       /\ Len(load.heap) <= MaxHeap
       /\ unmatched_file' = file
       /\ file_state' = [file_state EXCEPT !.unmatched = "ok"]
       /\ orders' = load.heap
       /\ buy_orders' = load.buys
       /\ sell_orders' = load.sells
       /\ history' = HistoryWith(load.heap)
       /\ last_call' = Call("reload", <<>>, <<>>, load.returns, NoRun)
       /\ UNCHANGED <<last_trade_price, accounts, executed_trades>>

\* A process that dies inside json.dump, after open(file, 'w') has truncated
\* the file, leaves a file that is not JSON.
DamageUnmatchedFile ==
    /\ file_state.unmatched = "ok"
    /\ file_state' = [file_state EXCEPT !.unmatched = "corrupt"]
    /\ unmatched_file' = <<>>
    /\ UNCHANGED <<orders, buy_orders, sell_orders, last_trade_price, accounts,
                   executed_trades, history, last_call>>

DamageTradesFile ==
    /\ file_state.trades = "ok"
    /\ file_state' = [file_state EXCEPT !.trades = "corrupt"]
    /\ executed_trades' = <<>>
    /\ UNCHANGED <<orders, buy_orders, sell_orders, last_trade_price, accounts,
                   unmatched_file, history, last_call>>

\* add_order and match_orders on a book object that exists.
AddStoredOrder == Constructed /\ AddOrderFrom(OrderInputs, MaxOrders)

AddFewStoredOrders == Constructed /\ AddOrderFrom(OrderInputs, MaxAdmitted)

MatchStored == Constructed /\ Match

-----------------------------------------------------------------------------
(* The book after construction with no files on disk, and its calls *)

Init ==
    /\ orders = <<>>
    /\ buy_orders = EmptyDict
    /\ sell_orders = EmptyDict
    /\ last_trade_price = EmptyDict
    /\ accounts = InitialAccounts
    /\ executed_trades = <<>>
    /\ unmatched_file = <<>>
    /\ file_state = [unmatched |-> "ok", trades |-> "ok"]
    /\ history = [submitted |-> <<>>, filled |-> <<>>]
    /\ last_call = Call("init", <<>>, <<>>, TRUE, NoRun)

Next == AddOrder \/ AddOrderAgain \/ Match

Spec == Init /\ [][Next]_vars

\* The same book given any dict, well-formed or not.
NextAdmission == AddAnyOrder \/ AddAnyOrderAgain \/ Match

SpecAdmission == Init /\ [][NextAdmission]_vars

\* The same book given orders with different timestamps.
NextPriority == AddTimedOrder \/ Match

SpecPriority == Init /\ [][NextPriority]_vars

\* The same book with the reporting queries.
NextReporting ==
    AddOrder \/ Match \/ GetBestBidAsk \/ GetBestPrice

SpecReporting == Init /\ [][NextReporting]_vars

\* The same book with reloads and restarts of the process over intact files.
NextReload == AddStoredOrder \/ MatchStored \/ SaveAndLoad \/ Construct

SpecReload == Init /\ [][NextReload]_vars

\* The same book with restarts of the process over files that may be damaged.
NextRestart ==
    \/ AddFewStoredOrders
    \/ MatchStored
    \/ Construct
    \/ DamageUnmatchedFile
    \/ DamageTradesFile

SpecRestart == Init /\ [][NextRestart]_vars

-----------------------------------------------------------------------------
(* Properties *)

\* The events of the most recent call (none unless it was match_orders).
Events == last_call.run.events
EventIndex == 1..Len(Events)
TradeEvents == {k \in EventIndex : Events[k].kind = "trade"}
RejectEvents == {k \in EventIndex : Events[k].kind = "reject"}

\* The trade record an event of kind "trade" appended to the log.
TradeRecord(e) == e.post.trades[Len(e.post.trades)]

\* The orders resting for a ticker, side by side.
BuysOf(t) == Get(buy_orders, t, <<>>)
SellsOf(t) == Get(sell_orders, t, <<>>)

\* A pair that the rules of the matching table allow to trade, given the
\* recorded last trade prices ltp.
Crossing(b, s) ==
    b.order_type = "limit" /\ s.order_type = "limit" /\ b.price >= s.price

Matchable(b, s, ltp, t) ==
    /\ b.account_id # s.account_id
    /\ \/ Crossing(b, s)
       \/ (b.order_type = "market") # (s.order_type = "market")
       \/ b.order_type = "market" /\ s.order_type = "market" /\ t \in DOMAIN ltp

\* C1: no trade record in the executed-trade log has buy_account_id equal to
\* sell_account_id, and no event of a match_orders run (a trade or a balance
\* rejection) pairs a buy order and a sell order of the same account.
C1_NoSelfTrade ==
    /\ \A i \in 1..Len(executed_trades) :
          executed_trades[i].buy_account_id # executed_trades[i].sell_account_id
    /\ \A k \in EventIndex :
          Events[k].pre.orders[Events[k].buy].account_id
            # Events[k].pre.orders[Events[k].sell].account_id

\* C1 witness: match_orders has traded, and left resting a buy and a sell of
\* one account whose limit prices cross.
C1_Witness ==
    /\ last_call.op = "match"
    /\ TradeEvents # {}
    /\ \E t \in Tickers :
          \E i \in 1..Len(BuysOf(t)) : \E j \in 1..Len(SellsOf(t)) :
            /\ orders[BuysOf(t)[i]].account_id = orders[SellsOf(t)[j]].account_id
            /\ Crossing(orders[BuysOf(t)[i]], orders[SellsOf(t)[j]])

\* C2: when match_orders(ticker) has returned, no buy order and sell order of
\* different accounts resting for that ticker are matchable: not two crossing
\* limit orders, not a market order with a limit order, not two market orders
\* while a last trade price is recorded.
C2_NoMatchableLeft ==
    last_call.op = "match" =>
        LET t == last_call.ticker[1]
        IN \A i \in 1..Len(BuysOf(t)) : \A j \in 1..Len(SellsOf(t)) :
              ~Matchable(orders[BuysOf(t)[i]], orders[SellsOf(t)[j]],
                         last_trade_price, t)

\* C2 witness: a run of match_orders with at least two events that leaves
\* orders of different accounts resting on both sides.
C2_Witness ==
    /\ last_call.op = "match"
    /\ Len(Events) >= 2
    /\ LET t == last_call.ticker[1]
       IN \E i \in 1..Len(BuysOf(t)) : \E j \in 1..Len(SellsOf(t)) :
            orders[BuysOf(t)[i]].account_id # orders[SellsOf(t)[j]].account_id

\* C3: every trade executes at the price of the order-type table: the sell's
\* limit price when the sell is a limit order, and then a limit buy is priced
\* at or above it; the buy's limit price when the buy is limit and the sell is
\* market; the last trade price recorded just before the trade, which exists,
\* when both are market orders.
C3_PriceTable ==
    \A k \in TradeEvents :
        LET e == Events[k]
            b == e.pre.orders[e.buy]
            s == e.pre.orders[e.sell]
            t == last_call.ticker[1]
            paid == TradeRecord(e).price
        IN /\ s.order_type = "limit" =>
                /\ paid = s.price
                /\ b.order_type = "limit" => b.price >= s.price
           /\ (b.order_type = "limit" /\ s.order_type = "market") => paid = b.price
           /\ (b.order_type = "market" /\ s.order_type = "market") =>
                /\ t \in DOMAIN e.pre.ltp
                /\ paid = e.pre.ltp[t]

\* C3 witness: a run in which two market orders trade at the last trade price
\* and a run's trade between two limit orders with different prices.
C3_Witness ==
    /\ \E k \in TradeEvents :
          /\ Events[k].pre.orders[Events[k].buy].order_type = "market"
          /\ Events[k].pre.orders[Events[k].sell].order_type = "market"
    /\ \E i \in 1..Len(executed_trades) : executed_trades[i].price = 2

\* The number of places of a deque that hold the object id.
Occurrences(ids, id) == Cardinality({i \in 1..Len(ids) : ids[i] = id})

\* C4: every trade has the quantity min(buy.quantity, sell.quantity) taken just
\* before it, both orders' quantities drop by exactly that amount, an order
\* that reaches quantity zero is no longer in the book while a partially filled
\* one stays resting, and no order is filled beyond its submitted quantity.
C4_QuantityAndRemoval ==
    /\ \A k \in TradeEvents :
          LET e == Events[k]
              bq == e.pre.orders[e.buy].quantity
              sq == e.pre.orders[e.sell].quantity
              q == TradeRecord(e).quantity
          IN /\ q = Min(bq, sq)
             /\ e.post.orders[e.buy].quantity = bq - q
             /\ e.post.orders[e.sell].quantity = sq - q
             /\ Occurrences(e.post.buys, e.buy) = (IF bq = q THEN 0 ELSE 1)
             /\ Occurrences(e.post.sells, e.sell) = (IF sq = q THEN 0 ELSE 1)
    /\ \A id \in 1..Len(orders) : history.filled[id] <= history.submitted[id]

\* C5: a balance rejection removes the buy order from the book, which is not
\* tried again, appends no trade, leaves the accounts, the sell order's
\* quantity and the last trade price as they were, and matching goes on.
C5_BalanceRejection ==
    \A k \in RejectEvents :
        LET e == Events[k]
            b == e.pre.orders[e.buy]
        IN /\ e.pre.accounts[b.account_id].balance < e.quantity * e.price
           /\ Occurrences(e.post.buys, e.buy) = 0
           /\ \A m \in EventIndex : m > k => Events[m].buy # e.buy
           /\ e.post.trades = e.pre.trades
           /\ e.post.accounts = e.pre.accounts
           /\ e.post.orders[e.sell].quantity = e.pre.orders[e.sell].quantity
           /\ e.post.sells = e.pre.sells
           /\ e.post.ltp = e.pre.ltp
           /\ last_call.op = "match" =>
                 EligiblePairs(last_call.run.cfg, last_call.ticker[1]) = {}

\* The account's current position, as add_order reads it.
PositionOf(o) == accounts[o.account_id].positions[o.ticker]

\* The four cases in which add_order is to reject.
MustReject(o) ==
    \/ o.quantity <= 0
    \/ o.order_type \notin {"market", "limit"}
    \/ o.order_type = "limit" /\ (o.price = None \/ o.price <= 0)
    \/ o.action = "sell" /\ o.quantity > PositionOf(o)

RanksAhead(x, y, side) ==
    \/ x.order_type = "market" /\ y.order_type = "limit"
    \/ /\ x.order_type = "limit" /\ y.order_type = "limit"
       /\ IF side = "buy" THEN x.price > y.price ELSE x.price < y.price
    \/ /\ x.order_type = y.order_type
       /\ x.order_type = "limit" => x.price = y.price
       /\ x.timestamp < y.timestamp

\* C7: every event of a run (a trade or a balance rejection) takes the
\* highest-priority buy order that has a matchable sell, with the
\* highest-priority sell matchable with it: market before limit, then the
\* better limit price, then the earlier timestamp.
C7_PriceTimePriority ==
    \A k \in EventIndex :
        LET e == Events[k]
            t == last_call.ticker[1]
            heap == e.pre.orders
            b == heap[e.buy]
            s == heap[e.sell]
            CanTrade(x, y) == Matchable(x, y, e.pre.ltp, t)
            sellsFor(x) == {j \in 1..Len(e.pre.sells) : CanTrade(x, heap[e.pre.sells[j]])}
        IN /\ CanTrade(b, s)
           /\ \A i \in 1..Len(e.pre.buys) :
                sellsFor(heap[e.pre.buys[i]]) # {} =>
                    ~RanksAhead(heap[e.pre.buys[i]], b, "buy")
           /\ \A j \in sellsFor(b) : ~RanksAhead(heap[e.pre.sells[j]], s, "sell")

\* C8: no account's position in any ticker is negative.
C8_NoShortPosition ==
    \A a \in Accounts : \A t \in Tickers : accounts[a].positions[t] >= 0

\* C9: between calls, every order resting in a buy or sell collection has a
\* positive quantity.
C9_RestingQuantityPositive ==
    \A t \in Tickers :
        /\ \A i \in 1..Len(BuysOf(t)) : orders[BuysOf(t)[i]].quantity > 0
        /\ \A j \in 1..Len(SellsOf(t)) : orders[SellsOf(t)[j]].quantity > 0

\* C10: no side/ticker collection holds the same order twice, and every order
\* is in at most one side/ticker collection.
C10_NoDuplicateOrder ==
    \A id \in 1..Len(orders) :
        /\ \A t \in Tickers :
              Occurrences(BuysOf(t), id) <= 1 /\ Occurrences(SellsOf(t), id) <= 1
        /\ Cardinality({c \in Tickers \X {"buy", "sell"} :
                Occurrences(IF c[2] = "buy" THEN BuysOf(c[1]) ELSE SellsOf(c[1]), id) > 0})
              <= 1

\* The deque of a side and a ticker in the two books.
SideOf(buys, sells, t, side) ==
    IF side = "buy" THEN Get(buys, t, <<>>) ELSE Get(sells, t, <<>>)

\* C11: when add_order returns True, the submitted order is the last element
\* of the collection of its side and ticker, which is otherwise as it was;
\* every other collection is as it was, every order that was resting keeps its
\* fields and quantity, and the order is in the book.
C11_SuccessAppends ==
    [][(last_call'.op = "add" /\ last_call'.result = TRUE) =>
          LET o == last_call'.order[1]
              Before(t, side) == SideOf(buy_orders, sell_orders, t, side)
              After(t, side) == SideOf(buy_orders', sell_orders', t, side)
          IN /\ \A id \in 1..Len(orders) : orders'[id] = orders[id]
             /\ \E side \in {"buy", "sell"} :
                   /\ o.action = side
                   /\ After(o.ticker, side) # <<>>
                   /\ LET now == After(o.ticker, side)
                      IN /\ orders'[now[Len(now)]] = o
                         /\ SubSeq(now, 1, Len(now) - 1) = Before(o.ticker, side)
                   /\ \A t \in Tickers : \A other \in {"buy", "sell"} :
                         <<t, other>> # <<o.ticker, side>> =>
                             After(t, other) = Before(t, other)]_vars

\* The orders of a book, by value: ticker -> list of order dicts.
BookValues(book, heap) ==
    [t \in DOMAIN book |-> [i \in 1..Len(book[t]) |-> heap[book[t][i]]]]

\* The orders a stored side of the snapshot denotes, their timestamps read back.
StoredValues(side) ==
    [t \in DOMAIN side |->
        [i \in 1..Len(side[t]) |->
            [side[t][i] EXCEPT !.timestamp = FromIsoFormat(@)]]]

\* C12: after every add_order and match_orders call the snapshot file holds
\* the book: per ticker and side the same orders, with the same fields and
\* quantities, in the same order; there is no file only while the book has
\* never held a collection.
C12_SnapshotIsBook ==
    last_call.op \in {"add", "match"} =>
        IF unmatched_file = <<>>
        THEN buy_orders = EmptyDict /\ sell_orders = EmptyDict
        ELSE /\ StoredValues(unmatched_file[1].buy_orders)
                    = BookValues(buy_orders, orders)
             /\ StoredValues(unmatched_file[1].sell_orders)
                    = BookValues(sell_orders, orders)

\* C12 witness: match_orders has traded and left two buy orders resting, one
\* of them partially filled, and a sell order; the file exists.
C12_Witness ==
    /\ last_call.op = "match"
    /\ TradeEvents # {}
    /\ unmatched_file # <<>>
    /\ \E t \in Tickers :
          /\ Len(BuysOf(t)) >= 2
          /\ Len(SellsOf(t)) >= 1
          /\ \E i \in 1..Len(BuysOf(t)) :
                /\ history.filled[BuysOf(t)[i]] > 0
                /\ orders[BuysOf(t)[i]].quantity > 0

\* C13: a load failure is never fatal: constructing the book returns, with an
\* empty book when the unmatched-orders file is missing or is not JSON; and a
\* trade appended to a trade log that is not JSON makes the log that one trade.
C13_LoadFailureNotFatal ==
    /\ last_call.op = "init" =>
          /\ last_call.result = TRUE
          /\ (unmatched_file = <<>> \/ file_state.unmatched = "corrupt") =>
                buy_orders = EmptyDict /\ sell_orders = EmptyDict
    /\ \A k \in TradeEvents :
          Events[k].pre.files.trades = "corrupt" =>
              Events[k].post.trades = <<TradeRecord(Events[k])>>

\* C14: save_unmatched_orders followed by load_unmatched_orders leaves, for
\* every ticker and side, the same orders (same fields and quantities) in the
\* same order, and the same tickers.
C14_RoundTrip ==
    [][last_call'.op = "reload" =>
          /\ last_call'.result = TRUE
          /\ BookValues(buy_orders', orders') = BookValues(buy_orders, orders)
          /\ BookValues(sell_orders', orders') = BookValues(sell_orders, orders)]_vars

\* C14 witness: a reload of a book that holds two buy orders, one of them
\* partially filled, and a ticker whose sell collection is empty.
C14_Witness ==
    /\ last_call.op = "reload"
    /\ executed_trades # <<>>
    /\ \E t \in Tickers :
          /\ Len(BuysOf(t)) >= 2
          /\ t \in DOMAIN sell_orders /\ SellsOf(t) = <<>>
          /\ \E i, j \in 1..Len(BuysOf(t)) :
                /\ orders[BuysOf(t)[i]].order_type = "market"
                /\ orders[BuysOf(t)[j]].order_type = "limit"
                /\ orders[BuysOf(t)[j]].quantity = 1

\* The places of the trade log that hold a trade in ticker t.
TradesIn(t) == {i \in 1..Len(executed_trades) : executed_trades[i].ticker = t}

\* The most recent trade record of ticker t.
LastTradeIn(t) ==
    executed_trades[CHOOSE i \in TradesIn(t) : \A j \in TradesIn(t) : j <= i]

\* C15: a ticker has no last trade price until its first trade and from then
\* on the price of its most recent trade record; a trade sets it to the
\* trade's price and a balance rejection leaves it as it was; it changes only
\* in a match_orders call that trades, and a ticker that has one keeps one.
C15_LastTradePrice ==
    /\ [](/\ \A t \in Tickers :
                IF TradesIn(t) = {} THEN t \notin DOMAIN last_trade_price
                ELSE /\ t \in DOMAIN last_trade_price
                     /\ last_trade_price[t] = LastTradeIn(t).price
          /\ \A k \in RejectEvents : Events[k].post.ltp = Events[k].pre.ltp
          /\ \A k \in TradeEvents :
                Events[k].post.ltp
                    = Put(Events[k].pre.ltp, last_call.ticker[1],
                          TradeRecord(Events[k]).price))
    /\ [][/\ DOMAIN last_trade_price \subseteq DOMAIN last_trade_price'
          /\ last_trade_price' # last_trade_price =>
                /\ last_call'.op = "match"
                /\ Len(executed_trades') > Len(executed_trades)]_vars

\* C15 witness: a run in which the first trade of the ticker is followed by a
\* balance rejection, which leaves the trade's price as the last trade price.
C15_Witness ==
    /\ last_call.op = "match"
    /\ \E k \in TradeEvents : \E m \in RejectEvents :
          /\ k < m
          /\ last_call.ticker[1] \notin DOMAIN Events[k].pre.ltp
          /\ last_trade_price[last_call.ticker[1]] = Events[k].price

\* The limit orders resting in a deque of ids.
RestingLimits(ids) == {i \in 1..Len(ids) : orders[ids[i]].order_type = "limit"}

\* The best bid of a ticker as the claim defines it: the maximum price among
\* the resting buy limit orders, none when there is none.
BestBidOf(t) ==
    IF RestingLimits(BuysOf(t)) = {} THEN None
    ELSE LET best == CHOOSE i \in RestingLimits(BuysOf(t)) :
                        \A j \in RestingLimits(BuysOf(t)) :
                            orders[BuysOf(t)[j]].price <= orders[BuysOf(t)[i]].price
         IN orders[BuysOf(t)[best]].price

\* The best ask: the minimum price among the resting sell limit orders.
BestAskOf(t) ==
    IF RestingLimits(SellsOf(t)) = {} THEN None
    ELSE LET best == CHOOSE i \in RestingLimits(SellsOf(t)) :
                        \A j \in RestingLimits(SellsOf(t)) :
                            orders[SellsOf(t)[i]].price <= orders[SellsOf(t)[j]].price
         IN orders[SellsOf(t)[best]].price

Queries == {"get_best_bid_ask", "get_best_price"}

\* C16: get_best_bid_ask and get_best_price change neither the book, the last
\* trade prices, the accounts, the trade log nor the snapshot file; the same
\* query asked again at once returns the same result; and get_best_bid_ask
\* returns the maximum resting buy limit price and the minimum resting sell
\* limit price of the ticker, none where there is no such order.
C16_ReportingIsPure ==
    /\ [](last_call.op = "get_best_bid_ask" =>
            last_call.result = << BestBidOf(last_call.ticker[1]),
                                  BestAskOf(last_call.ticker[1]) >>)
    /\ [][last_call'.op \in Queries =>
            /\ UNCHANGED <<orders, buy_orders, sell_orders, last_trade_price,
                           accounts, executed_trades, unmatched_file, file_state>>
            /\ (/\ last_call.op = last_call'.op
                /\ last_call.order = last_call'.order
                /\ last_call.ticker = last_call'.ticker) =>
                    last_call'.result = last_call.result]_vars

\* C16 witness: get_best_bid_ask answers with the higher of two resting buy
\* limit prices and no ask while only a market sell order rests.
C16_Witness ==
    /\ last_call.op = "get_best_bid_ask"
    /\ last_call.result = <<2, None>>
    /\ LET t == last_call.ticker[1]
       IN /\ \E i \in 1..Len(BuysOf(t)) : orders[BuysOf(t)[i]].price = 1
          /\ \E j \in 1..Len(SellsOf(t)) : orders[SellsOf(t)[j]].order_type = "market"

RECURSIVE BalanceOf(_, _)
BalanceOf(accts, ids) ==
    IF ids = {} THEN 0
    ELSE LET a == CHOOSE x \in ids : TRUE
         IN accts[a].balance + BalanceOf(accts, ids \ {a})

\* The shares of ticker t the accounts ids hold together.
RECURSIVE PositionIn(_, _, _)
PositionIn(accts, ids, t) ==
    IF ids = {} THEN 0
    ELSE LET a == CHOOSE x \in ids : TRUE
         IN accts[a].positions[t] + PositionIn(accts, ids \ {a}, t)

TotalBalance(accts) == BalanceOf(accts, Accounts)
TotalPosition(accts, t) == PositionIn(accts, Accounts, t)

\* C18: each trade moves quantity x price of cash from the buyer to the seller
\* and quantity shares from the seller to the buyer and appends one trade
\* record, a balance rejection moves nothing and appends none; so the sum of
\* the balances and, per ticker, the sum of the positions stay what they were
\* at the start, and the trade log grows by one record per settled match.
C18_Conservation ==
    /\ [](/\ TotalBalance(accounts) = TotalBalance(InitialAccounts)
          /\ \A t \in Tickers :
                TotalPosition(accounts, t) = TotalPosition(InitialAccounts, t)
          /\ \A k \in RejectEvents :
                /\ Events[k].post.accounts = Events[k].pre.accounts
                /\ Events[k].post.trades = Events[k].pre.trades
          /\ \A k \in TradeEvents :
                LET e == Events[k]
                    t == last_call.ticker[1]
                    rec == TradeRecord(e)
                    cash == rec.quantity * rec.price
                    buyer == rec.buy_account_id
                    seller == rec.sell_account_id
                IN /\ Len(e.post.trades) = Len(e.pre.trades) + 1
                   /\ buyer = e.pre.orders[e.buy].account_id
                   /\ seller = e.pre.orders[e.sell].account_id
                   /\ e.post.accounts[buyer].balance
                        = e.pre.accounts[buyer].balance - cash
                   /\ e.post.accounts[seller].balance
                        = e.pre.accounts[seller].balance + cash
                   /\ e.post.accounts[buyer].positions[t]
                        = e.pre.accounts[buyer].positions[t] + rec.quantity
                   /\ e.post.accounts[seller].positions[t]
                        = e.pre.accounts[seller].positions[t] - rec.quantity
                   /\ \A a \in Accounts \ {buyer, seller} :
                        e.post.accounts[a] = e.pre.accounts[a])
    /\ [][/\ Len(executed_trades')
                = Len(executed_trades)
                    + (IF last_call'.op = "match"
                       THEN Cardinality({k \in 1..Len(last_call'.run.events) :
                                last_call'.run.events[k].kind = "trade"})
                       ELSE 0)
          /\ last_call'.op # "match" => accounts' = accounts]_vars

\* C18 witness: two trades at different prices have moved cash and shares,
\* one of them two units of cash.
C18_Witness ==
    /\ accounts # InitialAccounts
    /\ \E i, j \in 1..Len(executed_trades) :
          /\ executed_trades[i].price # executed_trades[j].price
          /\ executed_trades[i].quantity * executed_trades[i].price = 2

\* C19: no trade executes above the limit price of its buy order when the
\* buy is a limit order, nor below the limit price of its sell order when the
\* sell is a limit order.
C19_LimitPriceProtection ==
    \A k \in TradeEvents :
        LET e == Events[k]
            b == e.pre.orders[e.buy]
            s == e.pre.orders[e.sell]
            paid == TradeRecord(e).price
        IN /\ b.order_type = "limit" => paid <= b.price
           /\ s.order_type = "limit" => paid >= s.price

\* C19 witness: in one run a limit buy has traded with a limit sell below its
\* own limit price and with a market sell at its limit price.
C19_Witness ==
    /\ last_call.op = "match"
    /\ \E k, m \in TradeEvents :
          LET b == Events[k].pre.orders[Events[k].buy]
              s == Events[k].pre.orders[Events[k].sell]
          IN /\ b.order_type = "limit" /\ s.order_type = "limit"
             /\ TradeRecord(Events[k]).price < b.price
             /\ Events[m].buy = Events[k].buy
             /\ Events[m].pre.orders[Events[m].sell].order_type = "market"
             /\ TradeRecord(Events[m]).price = b.price

\* C20: no account's balance is negative, and every trade debits a buyer whose
\* balance just before it covers quantity x price.
C20_NoNegativeBalance ==
    /\ \A a \in Accounts : accounts[a].balance >= 0
    /\ \A k \in EventIndex :
          \A a \in Accounts :
              /\ Events[k].pre.accounts[a].balance >= 0
              /\ Events[k].post.accounts[a].balance >= 0
    /\ \A k \in TradeEvents :
          LET e == Events[k]
              buyer == e.pre.orders[e.buy].account_id
          IN e.pre.accounts[buyer].balance
                >= TradeRecord(e).quantity * TradeRecord(e).price

\* C20 witness: one account has two buy orders resting; in one run the first
\* trades and takes what the second would need, and the second is rejected.
C20_Witness ==
    /\ last_call.op = "match"
    /\ \E k \in TradeEvents : \E m \in RejectEvents :
          LET e == Events[k]
              r == Events[m]
              buyer == e.pre.orders[e.buy].account_id
          IN /\ k < m
             /\ e.buy # r.buy
             /\ r.pre.orders[r.buy].account_id = buyer
             /\ e.pre.accounts[buyer].balance >= r.quantity * r.price
             /\ r.pre.accounts[buyer].balance < r.quantity * r.price

=============================================================================
